---- MODULE Spec2Model ----
(***************************************************************************)
(* Rock-Paper-Scissors against a Markov-chain bot: RPSGame / GameState     *)
(* (src/game.py) and RPSBot (src/bot.py).                                  *)
(*                                                                         *)
(* Weights are fixed-point: a cell holds thousandths, so 0.001 is 1, 1.0   *)
(* is 1000 and the default learning rate 0.01 is 10.  A matrix is a        *)
(* function [0..2 -> [0..2 -> Int]], indexed like the numpy array.         *)
(***************************************************************************)
EXTENDS Integers, Sequences, FiniteSets, TLC

\* ------------------------------------------------------------------ bounds
MaxTurn == 31        \* no round is started from this turn on
MaxSwitches == 1     \* changes of move by the player in a game (SpecGame)
MaxRunSwitches == 0  \* the same in a run with restarts (Spec)
MaxGames == 2        \* GameState instances per run: construction and restarts
MaxReplayTurn == 2   \* as MaxTurn, for the games after a restart
MaxCalls == 4        \* calls made on a bot used on its own (SpecBot)

\* --------------------------------------------------------- program constants
One == 1000          \* 1.0
lr == 10             \* RPSBot.lr, 0.01
Floor == 1           \* 0.001
Cap == 999           \* 0.999
TurnCap == 30
ScoreCap == 10
None == -1           \* RPSBot.state when unset

\* RPSBot.states
states == <<"R", "P", "S">>

\* RPSMove
ROCK == "R"
PAPER == "P"
SCISSORS == "S"
NONE == ""
RPSMove == {ROCK, PAPER, SCISSORS, NONE}
ValidMoves == {ROCK, PAPER, SCISSORS}

\* GameStatus, RoundResult
GameStatus == {"PENDING", "WIN", "LOSS", "DRAW"}
RoundResult == {"WIN", "LOSS", "TIE"}

Idx == 0..2
Abs(x) == IF x < 0 THEN -x ELSE x
Max(a, b) == IF a >= b THEN a ELSE b
Min(a, b) == IF a <= b THEN a ELSE b

\* states.index(move)
index(m) == CHOOSE i \in Idx : states[i + 1] = m

argmax_last(v) == CHOOSE i \in Idx : /\ \A j \in Idx : v[i] >= v[j]
                                     /\ \A j \in Idx : j > i => v[j] < v[i]

\* np.argmax of a 3-vector: the first index holding the maximum
argmax(v) == CHOOSE i \in Idx : /\ \A j \in Idx : v[i] >= v[j]
                                /\ \A j \in Idx : j < i => v[j] < v[i]

\* ---------------------------------------------------------------- game.py
get_move_result_swapped(player_move, bot_move) ==
    IF player_move = bot_move THEN "TIE"
    ELSE IF \/ (player_move = ROCK /\ bot_move = PAPER)
            \/ (player_move = PAPER /\ bot_move = SCISSORS)
            \/ (player_move = SCISSORS /\ bot_move = ROCK)
         THEN "WIN" ELSE "LOSS"

get_move_result(player_move, bot_move) ==
    IF player_move = bot_move THEN "TIE"
    ELSE IF \/ (player_move = ROCK /\ bot_move = SCISSORS)
            \/ (player_move = PAPER /\ bot_move = ROCK)
            \/ (player_move = SCISSORS /\ bot_move = PAPER)
         THEN "WIN" ELSE "LOSS"

\* GameState(): the dataclass defaults
GameState == [player_score |-> 0, bot_score |-> 0, turn |-> 1,
              history |-> << >>, status |-> "PENDING"]

update_score_nofloor(gs, round_result) ==
    LET s == IF round_result = "WIN"
             THEN [gs EXCEPT !.player_score = @ + 1, !.bot_score = @ - 1]
             ELSE IF round_result = "LOSS"
             THEN [gs EXCEPT !.player_score = @ - 1, !.bot_score = @ + 1]
             ELSE gs
    IN [s EXCEPT !.turn = @ + 1]

update_score(gs, round_result) ==
    LET s == IF round_result = "WIN"
             THEN [gs EXCEPT !.player_score = @ + 1,
                             !.bot_score = Max(0, @ - 1)]
             ELSE IF round_result = "LOSS"
             THEN [gs EXCEPT !.player_score = Max(0, @ - 1),
                             !.bot_score = @ + 1]
             ELSE gs
    IN [s EXCEPT !.turn = @ + 1]

add_to_history_overwrites(gs, player_move, bot_move, round_result) ==
    [gs EXCEPT !.history = <<<<player_move, bot_move, round_result>>>>]

add_to_history(gs, player_move, bot_move, round_result) ==
    [gs EXCEPT !.history = Append(@, <<player_move, bot_move, round_result>>)]

get_last_round(gs) == gs.history[Len(gs.history)]

is_finished(gs) ==
    gs.turn = TurnCap \/ gs.player_score = ScoreCap \/ gs.bot_score = ScoreCap

update_status_scores_first(gs) ==
    IF gs.player_score = ScoreCap THEN [gs EXCEPT !.status = "WIN"]
    ELSE IF gs.bot_score = ScoreCap THEN [gs EXCEPT !.status = "LOSS"]
    ELSE IF gs.turn = TurnCap THEN [gs EXCEPT !.status = "DRAW"]
    ELSE gs

update_status(gs) ==
    IF gs.turn = TurnCap
    THEN IF gs.player_score > gs.bot_score THEN [gs EXCEPT !.status = "WIN"]
         ELSE IF gs.player_score < gs.bot_score THEN [gs EXCEPT !.status = "LOSS"]
         ELSE [gs EXCEPT !.status = "DRAW"]
    ELSE IF gs.player_score = ScoreCap THEN [gs EXCEPT !.status = "WIN"]
    ELSE IF gs.bot_score = ScoreCap THEN [gs EXCEPT !.status = "LOSS"]
    ELSE gs

\* ----------------------------------------------------------------- bot.py
\* The 2x2 minor of m with row r and column c deleted, and its cofactor.
Minor(m, r, c) ==
    LET r1 == CHOOSE i \in Idx \ {r} : \A j \in Idx \ {r} : i <= j
        r2 == CHOOSE i \in Idx \ {r} : \A j \in Idx \ {r} : i >= j
        c1 == CHOOSE i \in Idx \ {c} : \A j \in Idx \ {c} : i <= j
        c2 == CHOOSE i \in Idx \ {c} : \A j \in Idx \ {c} : i >= j
    IN m[r1][c1] * m[r2][c2] - m[r1][c2] * m[r2][c1]

Cofactor(m, r, c) == IF (r + c) % 2 = 0 THEN Minor(m, r, c) ELSE -Minor(m, r, c)

Det(m) == m[0][0] * Cofactor(m, 0, 0) + m[0][1] * Cofactor(m, 0, 1)
          + m[0][2] * Cofactor(m, 0, 2)

Shifted_by_zero(transitions) ==
    [i \in Idx |-> [j \in Idx |-> transitions[j][i]]]

\* transitions.T - 1.0 * I : its null vectors are the eigenvectors of
\* transitions.T for the eigenvalue 1.
Shifted(transitions) ==
    [i \in Idx |-> [j \in Idx |-> transitions[j][i] - (IF i = j THEN One ELSE 0)]]

\* np.where(np.abs(eigenvalues - 1.0) < 1e-8)[0] is non-empty.  Det(m) is
\* the characteristic polynomial of transitions.T at 1 (in 1e-9) and the
\* trace of the adjugate its slope there (in 1e-6): an eigenvalue lies
\* within 1e-8 of 1 when the polynomial vanishes at 1, or is within 1e-8
\* times the slope of vanishing.
HasUnitEigenvalue(transitions) ==
    LET m == Shifted(transitions)
        d == Abs(Det(m))
        t == Abs(Cofactor(m, 0, 0) + Cofactor(m, 1, 1) + Cofactor(m, 2, 2))
    IN d = 0 \/ (d < 100 /\ d * 100000 < t)

\* _calculate_stable_distribution: the indices np.argmax can return on the
\* normalised eigenvector, or {} when no eigenvalue is within tolerance
\* (the [0][0] subscript then raises IndexError).  Column k of the adjugate
\* of a singular matrix is a null vector of it; dividing by the sum removes
\* scale and sign.  A vanishing eigenvector sum divides by zero and an
\* eigenvalue 1 of multiplicity above one leaves the eigenvector open: any
\* index may come out.
calculate_stable_distribution(transitions) ==
    LET m == Shifted(transitions)
        col(k) == [i \in Idx |-> Cofactor(m, k, i)]
        nz == {k \in Idx : \E i \in Idx : col(k)[i] # 0}
    IN IF ~HasUnitEigenvalue(transitions) THEN {}
       ELSE IF nz = {} THEN Idx
       ELSE LET k == CHOOSE x \in nz : \A y \in nz : x <= y
                v == col(k)
                total == v[0] + v[1] + v[2]
            IN IF total = 0 THEN Idx
               ELSE IF total > 0 THEN {argmax(v)}
               ELSE {argmax([i \in Idx |-> -v[i]])}

\* RPSBot.__post_init__ with the matrix the random draw produced
RPSBot(transitions) == [state |-> None, transitions |-> transitions]

update_transitions_decay_first(b, move) ==
    IF b.state = None
    THEN IF move \in ValidMoves
         THEN [bot |-> [b EXCEPT !.state = index(move)], raised |-> "none"]
         ELSE [bot |-> b, raised |-> "ValueError"]
    ELSE LET s == b.state
             decayed == [j \in Idx |-> Max(Floor, b.transitions[s][j] - lr)]
             d == [b EXCEPT !.transitions[s] = decayed]
         IN IF move \notin ValidMoves
            THEN [bot |-> d, raised |-> "ValueError"]
            ELSE [bot |-> [d EXCEPT !.transitions[s][index(move)] =
                                        Min(Cap, @ + lr * 3),
                                    !.state = index(move)],
                  raised |-> "none"]

update_transitions_anchor_learns(b, move) ==
    IF move \notin ValidMoves
    THEN [bot |-> b, raised |-> "ValueError"]
    ELSE LET new_state == index(move)
             s == IF b.state = None THEN new_state ELSE b.state
             decayed == [j \in Idx |-> Max(Floor, b.transitions[s][j] - lr)]
             row == [decayed EXCEPT ![new_state] = Min(Cap, @ + lr * 3)]
         IN [bot |-> [b EXCEPT !.transitions[s] = row, !.state = new_state],
             raised |-> "none"]

update_transitions_no_floor(b, move) ==
    IF move \notin ValidMoves
    THEN [bot |-> b, raised |-> "ValueError"]
    ELSE LET new_state == index(move)
         IN IF b.state = None
            THEN [bot |-> [b EXCEPT !.state = new_state], raised |-> "none"]
            ELSE LET s == b.state
                     decayed == [j \in Idx |-> b.transitions[s][j] - lr]
                     row == [decayed EXCEPT ![new_state] = Min(Cap, @ + lr * 3)]
                 IN [bot |-> [b EXCEPT !.transitions[s] = row,
                                       !.state = new_state],
                     raised |-> "none"]

update_transitions_gain_two(b, move) ==
    IF move \notin ValidMoves
    THEN [bot |-> b, raised |-> "ValueError"]
    ELSE LET new_state == index(move)
         IN IF b.state = None
            THEN [bot |-> [b EXCEPT !.state = new_state], raised |-> "none"]
            ELSE LET s == b.state
                     decayed == [j \in Idx |->
                                   Max(Floor, b.transitions[s][j] - lr)]
                     row == [decayed EXCEPT ![new_state] = Min(Cap, @ + lr * 2)]
                 IN [bot |-> [b EXCEPT !.transitions[s] = row,
                                       !.state = new_state],
                     raised |-> "none"]

update_transitions_every_row(b, move) ==
    IF move \notin ValidMoves
    THEN [bot |-> b, raised |-> "ValueError"]
    ELSE LET new_state == index(move)
         IN IF b.state = None
            THEN [bot |-> [b EXCEPT !.state = new_state], raised |-> "none"]
            ELSE LET s == b.state
                     decayed == [i \in Idx |-> [j \in Idx |->
                                   Max(Floor, b.transitions[i][j] - lr)]]
                     row == [decayed[s] EXCEPT
                               ![new_state] = Min(Cap, @ + lr * 3)]
                 IN [bot |-> [transitions |-> [decayed EXCEPT ![s] = row],
                              state |-> new_state],
                     raised |-> "none"]

update_transitions_decay_only(b, move) ==
    IF move \notin ValidMoves
    THEN [bot |-> b, raised |-> "ValueError"]
    ELSE LET new_state == index(move)
         IN IF b.state = None
            THEN [bot |-> [b EXCEPT !.state = new_state], raised |-> "none"]
            ELSE LET s == b.state
                     decayed == [j \in Idx |->
                                   Max(Floor, b.transitions[s][j] - lr)]
                 IN [bot |-> [b EXCEPT !.transitions[s] = decayed,
                                       !.state = new_state],
                     raised |-> "none"]

\* update_transitions: the bot after the call and what the call raised
update_transitions(b, move) ==
    IF move \notin ValidMoves
    THEN [bot |-> b, raised |-> "ValueError"]
    ELSE LET new_state == index(move)
         IN IF b.state = None
            THEN [bot |-> [b EXCEPT !.state = new_state], raised |-> "none"]
            ELSE LET s == b.state
                     decayed == [j \in Idx |->
                                   Max(Floor, b.transitions[s][j] - lr)]
                     row == [decayed EXCEPT ![new_state] = Min(Cap, @ + lr * 3)]
                 IN [bot |-> [b EXCEPT !.transitions[s] = row,
                                       !.state = new_state],
                     raised |-> "none"]

\* predict: the moves the call can return, or {"IndexError"} when the
\* stable distribution cannot be computed
predict(b) ==
    IF b.state = None
    THEN LET found == calculate_stable_distribution(b.transitions)
         IN IF found = {} THEN {"IndexError"}
            ELSE {states[((g + 1) % 3) + 1] : g \in found}
    ELSE {states[((argmax(b.transitions[b.state]) + 1) % 3) + 1]}

reset_state_forgets(b) ==
    [state |-> None, transitions |-> [i \in Idx |-> [j \in Idx |-> Floor]]]

reset_state(b) == [b EXCEPT !.state = None]

\* save_weights writes a file under logs/: it returns or raises OSError, and
\* changes nothing in memory
save_weights(b) == {"none", "OSError"}

\* The values float() gives that are not finite, as reserved code points of
\* the fixed-point weights
NaN == 2000000000
Inf == 1000000000

\* float(token) of np.loadtxt: the value of a token of the text; float()
\* raises ValueError on a token outside the domain
float == [t \in {"0.2", "0.3", "0.5", "nan", "inf"} |->
            CASE t = "0.2" -> 200
              [] t = "0.3" -> 300
              [] t = "0.5" -> 500
              [] t = "nan" -> NaN
              [] t = "inf" -> Inf]

\* The files load_weights is pointed at: the lines of each, split at
\* whitespace; a path outside the domain has no file.  Every file here has
\* at least two lines of at least two tokens, which np.loadtxt returns as a
\* two-dimensional array.
Files == [path \in {"weights.txt", "short.txt", "nan.txt", "inf.txt",
                    "text.txt", "ragged.txt"} |->
    CASE path = "weights.txt" -> <<<<"0.2", "0.3", "0.5">>,
                                   <<"0.5", "0.2", "0.3">>,
                                   <<"0.3", "0.5", "0.2">>>>
      [] path = "short.txt"   -> <<<<"0.5", "0.5">>, <<"0.2", "0.3">>>>
      [] path = "nan.txt"     -> <<<<"0.2", "0.3", "0.5">>,
                                   <<"nan", "0.2", "0.3">>,
                                   <<"0.3", "0.5", "0.2">>>>
      [] path = "inf.txt"     -> <<<<"0.2", "0.3", "0.5">>,
                                   <<"0.5", "0.2", "0.3">>,
                                   <<"0.3", "inf", "0.2">>>>
      [] path = "text.txt"    -> <<<<"0.2", "0.3", "0.5">>,
                                   <<"0.5", "x", "0.3">>,
                                   <<"0.3", "0.5", "0.2">>>>
      [] path = "ragged.txt"  -> <<<<"0.2", "0.3", "0.5">>,
                                   <<"0.5", "0.2">>,
                                   <<"0.3", "0.5", "0.2">>>>]

Paths == DOMAIN Files \cup {"missing.txt"}

\* np.loadtxt(filepath): the array read, indexed from 0 like a matrix, or
\* the exception raised: FileNotFoundError when there is no file, ValueError
\* when a token is not a float literal or the lines differ in length.  "nan"
\* and "inf" are float literals, and no shape is asked for.
loadtxt(filepath) ==
    IF filepath \notin DOMAIN Files
    THEN [array |-> <<>>, raised |-> "FileNotFoundError"]
    ELSE LET text == Files[filepath]
         IN IF \/ \E r \in 1..Len(text) : \E c \in 1..Len(text[r]) :
                      text[r][c] \notin DOMAIN float
               \/ \E r \in 1..Len(text) : Len(text[r]) # Len(text[1])
            THEN [array |-> <<>>, raised |-> "ValueError"]
            ELSE [array |-> [i \in 0..(Len(text) - 1) |->
                              [j \in 0..(Len(text[1]) - 1) |->
                                 float[text[i + 1][j + 1]]]],
                  raised |-> "none"]

\* load_weights: self.transitions = np.loadtxt(filepath); nothing is assigned
\* when loadtxt raises
load_weights(b, filepath) ==
    LET read == loadtxt(filepath)
    IN IF read.raised # "none"
       THEN [bot |-> b, raised |-> read.raised]
       ELSE [bot |-> [b EXCEPT !.transitions = read.array], raised |-> "none"]

\* ------------------------------------------------------- game.py: RPSGame
calculate_bot_move_update_first(b, player_move) ==
    LET u == update_transitions(b, player_move)
    IN IF u.raised # "none"
       THEN {[bot_move |-> NONE, bot |-> u.bot, raised |-> u.raised]}
       ELSE {IF p = "IndexError"
             THEN [bot_move |-> NONE, bot |-> u.bot, raised |-> "IndexError"]
             ELSE [bot_move |-> p, bot |-> u.bot, raised |-> "none"]
             : p \in predict(u.bot)}

calculate_bot_move_learns_own_move(b, player_move) ==
    {IF p = "IndexError"
     THEN [bot_move |-> NONE, bot |-> b, raised |-> "IndexError"]
     ELSE IF player_move \notin ValidMoves
     THEN [bot_move |-> p, bot |-> b, raised |-> "ValueError"]
     ELSE LET u == update_transitions(b, p)
          IN [bot_move |-> p, bot |-> u.bot, raised |-> u.raised]
     : p \in predict(b)}

\* calculate_bot_move: predict(), then update_transitions(player_move.value);
\* an exception leaves the bot as it was when raised
calculate_bot_move(b, player_move) ==
    {IF p = "IndexError"
     THEN [bot_move |-> NONE, bot |-> b, raised |-> "IndexError"]
     ELSE LET u == update_transitions(b, player_move)
          IN [bot_move |-> p, bot |-> u.bot, raised |-> u.raised]
     : p \in predict(b)}

\* move: every outcome of the call, as the GameState and the bot it leaves
\* and the exception that left it ("none" when it returned self.state)
move(gs, b, player_move) ==
    UNION {
      IF c.raised # "none"
      THEN {[state |-> gs, bot |-> c.bot, raised |-> c.raised]}
      ELSE LET round_result == get_move_result(player_move, c.bot_move)
               scored == update_score(gs, round_result)
               logged == add_to_history(scored, player_move, c.bot_move,
                                        round_result)
           IN IF is_finished(logged)
              THEN {IF saved = "none"
                    THEN [state |-> update_status(logged), bot |-> c.bot,
                          raised |-> "none"]
                    ELSE [state |-> logged, bot |-> c.bot, raised |-> saved]
                    : saved \in save_weights(c.bot)}
              ELSE {[state |-> logged, bot |-> c.bot, raised |-> "none"]}
      : c \in calculate_bot_move(b, player_move)}

restart_game(gs, b) == [state |-> GameState, bot |-> reset_state(b)]

\* ------------------------------------------------------------ the program
VARIABLES
    state,    \* RPSGame.state : GameState
    bot,      \* RPSGame.bot : RPSBot
    call,     \* the last call made on the RPSGame and its argument
    raised,   \* the exception that call raised, "none" if it returned
    games,    \* GameState instances created so far
    calls     \* calls made directly on the bot so far

vars == <<state, bot, call, raised, games, calls>>

\* Matrices np.random.rand(3, 3) can produce once row-normalised
\* (each row sums to 1.0)
InitTransitions == {
    <<<<50, 50, 900>>, <<50, 50, 900>>, <<50, 50, 900>>>>,
    <<<<800, 100, 100>>, <<100, 300, 600>>, <<600, 300, 100>>>>,
    <<<<200, 70, 730>>, <<500, 250, 250>>, <<200, 600, 200>>>> }

Matrix(rows) == [i \in Idx |-> [j \in Idx |-> rows[i + 1][j + 1]]]

\* RPSGame.__init__
Init ==
    /\ state = GameState
    /\ \E rows \in InitTransitions : bot = RPSBot(Matrix(rows))
    /\ call = [op |-> "__init__", arg |-> NONE]
    /\ raised = "none"
    /\ games = 1
    /\ calls = 0

\* The number of times the player of history h changed move
Switches(h) == Cardinality({i \in 1..(Len(h) - 1) : h[i][1] # h[i + 1][1]})

\* The rounds the bounds admit: at most maxSwitches changes of move in a
\* game, and no round is started from turn maxTurn on
Admitted(player_move, maxSwitches, maxTurn) ==
    /\ state.turn < maxTurn
    /\ Switches(Append(state.history, <<player_move>>)) <= maxSwitches

\* self.game.move(player_move), with every outcome move() allows
Call(player_move) ==
    \E r \in move(state, bot, player_move) :
        /\ state' = r.state
        /\ bot' = r.bot
        /\ raised' = r.raised
        /\ call' = [op |-> "move", arg |-> player_move]
        /\ UNCHANGED <<games, calls>>

\* GameContainer.on_move from one of the three move buttons
Move ==
    \E player_move \in ValidMoves :
        /\ Admitted(player_move, MaxRunSwitches,
                    IF games = 1 THEN MaxTurn ELSE MaxReplayTurn)
        /\ Call(player_move)

\* The same, for a player who may change move within the one game
Play ==
    \E player_move \in ValidMoves :
        /\ Admitted(player_move, MaxSwitches, MaxTurn)
        /\ Call(player_move)

\* move(RPSMove.NONE)
MoveNone == Call(NONE)

\* GameContainer.restart_game
Restart ==
    /\ games < MaxGames
    /\ state' = restart_game(state, bot).state
    /\ bot' = restart_game(state, bot).bot
    /\ call' = [op |-> "restart_game", arg |-> NONE]
    /\ raised' = "none"
    /\ games' = games + 1
    /\ UNCHANGED calls

\* The whole program: games played and restarted
Next == Move \/ MoveNone \/ Restart

Spec == Init /\ [][Next]_vars

\* One game instance, never restarted
NextGame == Play \/ MoveNone

SpecGame == Init /\ [][NextGame]_vars

\* ---------------------------------------------------- the bot on its own
\* As InitTransitions, with matrices whose draw left a cell under 0.001 or
\* next to 1.0 (np.random.rand samples [0, 1), zero included)
InitBotTransitions == InitTransitions \cup {
    <<<<0, 400, 600>>, <<980, 15, 5>>, <<300, 300, 400>>>>,
    <<<<340, 330, 330>>, <<0, 0, 1000>>, <<25, 950, 25>>>> }

\* RPSBot()
InitBot ==
    /\ state = GameState
    /\ \E rows \in InitBotTransitions : bot = RPSBot(Matrix(rows))
    /\ call = [op |-> "__init__", arg |-> NONE]
    /\ raised = "none"
    /\ games = 1
    /\ calls = 0

\* The array in self.transitions is a 3x3 array of finite values
IsMatrix(t) ==
    /\ DOMAIN t = Idx
    /\ \A i \in Idx : DOMAIN t[i] = Idx
    /\ \A i, j \in Idx : t[i][j] \notin {NaN, Inf}

\* A call on the bot: at most MaxCalls in a run
BotCall(op, arg) ==
    /\ calls < MaxCalls
    /\ calls' = calls + 1
    /\ call' = [op |-> op, arg |-> arg]
    /\ UNCHANGED <<state, games>>

\* bot.update_transitions(move); computing on a loaded array that is not a
\* 3x3 array of finite values is not followed
UpdateTransitions ==
    \E m \in RPSMove :
        /\ IsMatrix(bot.transitions)
        /\ BotCall("update_transitions", m)
        /\ bot' = update_transitions(bot, m).bot
        /\ raised' = update_transitions(bot, m).raised

\* bot.predict()
Predict ==
    /\ IsMatrix(bot.transitions)
    /\ BotCall("predict", NONE)
    /\ \E p \in predict(bot) :
           raised' = IF p = "IndexError" THEN "IndexError" ELSE "none"
    /\ UNCHANGED bot

\* bot.reset_state()
ResetState ==
    /\ BotCall("reset_state", NONE)
    /\ bot' = reset_state(bot)
    /\ raised' = "none"

\* bot.load_weights(filepath)
LoadWeights ==
    \E filepath \in Paths :
        /\ BotCall("load_weights", filepath)
        /\ bot' = load_weights(bot, filepath).bot
        /\ raised' = load_weights(bot, filepath).raised

\* bot.save_weights()
SaveWeights ==
    /\ BotCall("save_weights", NONE)
    /\ raised' \in save_weights(bot)
    /\ UNCHANGED bot

NextBot == UpdateTransitions \/ Predict \/ ResetState \/ LoadWeights
           \/ SaveWeights

SpecBot == InitBot /\ [][NextBot]_vars

\* ------------------------------------------- the bot against one move
\* game.calculate_bot_move(player_move) for a player who repeats the move
\* the bot is anchored at: predict(), then update_transitions of that move.
\* The row saturates, so the runs need no bound.
Repeat ==
    \E player_move \in ValidMoves :
        /\ bot.state \in {None, index(player_move)}
        /\ \E c \in calculate_bot_move(bot, player_move) :
               /\ bot' = c.bot
               /\ raised' = c.raised
               /\ call' = [op |-> "calculate_bot_move", arg |-> player_move,
                           ret |-> c.bot_move]
        /\ UNCHANGED <<state, games, calls>>

NextLearn == Repeat

\* The player keeps repeating the move
SpecLearn == InitBot /\ [][NextLearn]_vars /\ WF_vars(NextLearn)

\* ------------------------------------------------------------- the claims
\* A step that is a call of move() / one that completed a round
MoveStep == call'.op = "move" /\ games' = games
RoundStep == MoveStep /\ Len(state'.history) = Len(state.history) + 1
RestartStep == call'.op = "restart_game" /\ games' = games + 1
Terminal == {"WIN", "LOSS", "DRAW"}
ByScores(gs) == IF gs.player_score > gs.bot_score THEN "WIN"
                ELSE IF gs.player_score < gs.bot_score THEN "LOSS" ELSE "DRAW"

\* C1: once status has left PENDING, no further move() made without
\* restart_game() changes it.
C1_StatusImmutable ==
    [][(MoveStep /\ state.status \in Terminal)
         => state'.status = state.status]_vars

\* C2: when the terminal condition holds at the end of a round and
\* save_weights fails, move() has still set status to the terminal value.
C2_ExportFailureKeepsResult ==
    [][(RoundStep /\ raised' = "OSError")
         => /\ state'.status \in Terminal
            /\ state'.status = update_status(state').status]_vars

\* C3: the opponent move recorded for a round is the one predict() gives
\* before the update, so it is the same whichever of ROCK, PAPER, SCISSORS
\* the player submits in that round.
C3_BotMoveIgnoresPlayerMove ==
    [][RoundStep =>
         \A m \in ValidMoves : \A r \in move(state, bot, m) :
             /\ Len(r.state.history) = Len(state.history) + 1
             /\ r.state.history[Len(r.state.history)][2]
                  = state'.history[Len(state'.history)][2]]_vars

C3_Witness ==
    /\ call.op = "move" /\ raised = "none"
    /\ Len(state.history) >= 3
    /\ Switches(state.history) = 1

\* C4: whenever a round leaves turn = 30, the status after that round is
\* not PENDING and is the comparison of the scores.
C4_TurnCapStatus ==
    [][(RoundStep /\ state'.turn = TurnCap)
         => state'.status = ByScores(state')]_vars

\* C5: a round played from PENDING that leaves player_score = 10 leaves
\* status WIN, and one that leaves bot_score = 10 leaves status LOSS,
\* whatever the other score and the turn.
C5_ScoreCapStatus ==
    [][(RoundStep /\ state.status = "PENDING")
         => /\ state'.player_score = ScoreCap => state'.status = "WIN"
            /\ state'.bot_score = ScoreCap => state'.status = "LOSS"]_vars

\* C6: status becomes DRAW only in a round that leaves turn = 30 with equal
\* scores; a round that ends with turn # 30 never sets DRAW, and a DRAW
\* game has played the 29 rounds that bring turn to 30.
C6_DrawOnlyAtTurnCap ==
    [][/\ (state'.status = "DRAW" /\ state.status # "DRAW")
            => /\ RoundStep
               /\ state'.turn = TurnCap
               /\ state'.player_score = state'.bot_score
       /\ (state'.status = "DRAW" /\ ~RestartStep)
            => Len(state'.history) >= TurnCap - 1]_vars

C6_Witness ==
    /\ state.status = "DRAW" /\ state.turn = TurnCap
    /\ state.player_score = state.bot_score

\* C7: a round adds 1 to the winner's score, takes 1 from the other score
\* without going below 0, changes no score on a TIE and adds 1 to turn; on
\* a fresh game ROCK against PAPER gives LOSS, scores 0 and 1, turn 2 and
\* status PENDING.
C7_ScoreRule ==
    [][RoundStep =>
         LET rec == state'.history[Len(state'.history)]
         IN /\ state'.turn = state.turn + 1
            /\ rec[3] = "WIN" =>
                 /\ state'.player_score = state.player_score + 1
                 /\ state'.bot_score = Max(0, state.bot_score - 1)
            /\ rec[3] = "LOSS" =>
                 /\ state'.bot_score = state.bot_score + 1
                 /\ state'.player_score = Max(0, state.player_score - 1)
            /\ rec[3] = "TIE" =>
                 /\ state'.player_score = state.player_score
                 /\ state'.bot_score = state.bot_score
            /\ (state = GameState /\ rec[1] = ROCK /\ rec[2] = PAPER) =>
                 /\ rec[3] = "LOSS"
                 /\ state'.player_score = 0 /\ state'.bot_score = 1
                 /\ state'.turn = 2 /\ state'.status = "PENDING"]_vars

C7_Witness ==
    /\ state.history = << <<ROCK, PAPER, "LOSS">> >>
    /\ state.player_score = 0 /\ state.bot_score = 1
    /\ state.turn = 2 /\ state.status = "PENDING"

\* C8: get_move_result gives TIE on equal moves, WIN exactly when the first
\* move beats the second in the cycle (Rock beats Scissors, Scissors beats
\* Paper, Paper beats Rock) and LOSS otherwise, so that swapping the moves
\* swaps WIN and LOSS; every recorded round carries that result.
Beats(a, b) == index(a) = (index(b) + 1) % 3

C8_MoveResult ==
    /\ \A a \in ValidMoves, b \in ValidMoves :
         /\ a = b => get_move_result(a, b) = "TIE"
         /\ (a # b /\ Beats(a, b)) => get_move_result(a, b) = "WIN"
         /\ (a # b /\ ~Beats(a, b)) => get_move_result(a, b) = "LOSS"
         /\ get_move_result(a, b) = "WIN" => get_move_result(b, a) = "LOSS"
         /\ get_move_result(a, b) = "LOSS" => get_move_result(b, a) = "WIN"
    /\ \A i \in 1..Len(state.history) :
         LET rec == state.history[i]
         IN rec[3] = IF rec[1] = rec[2] THEN "TIE"
                     ELSE IF Beats(rec[1], rec[2]) THEN "WIN" ELSE "LOSS"

C8_Witness ==
    /\ \E i \in 1..Len(state.history) : state.history[i][3] = "WIN"
    /\ \E i \in 1..Len(state.history) : state.history[i][3] = "LOSS"
    /\ \E i \in 1..Len(state.history) : state.history[i][3] = "TIE"

\* C9: move() with a move outside ROCK, PAPER, SCISSORS raises and changes
\* neither the GameState (scores, turn, history, status) nor the bot
\* (transition matrix, current state).
C9_InvalidMoveRejected ==
    [][(MoveStep /\ call'.arg \notin ValidMoves)
         => /\ raised' # "none"
            /\ state' = state
            /\ bot' = bot]_vars

C9_Witness ==
    /\ call = [op |-> "move", arg |-> NONE]
    /\ raised = "ValueError"
    /\ bot.state # None
    /\ state.turn > 2

\* C10: restart_game() leaves a GameState with scores 0, turn 1, empty
\* history and status PENDING, the bot's current state unset and its
\* transition matrix as it was; restarting again changes nothing more.
C10_RestartFrame ==
    [][RestartStep =>
         /\ state'.player_score = 0 /\ state'.bot_score = 0
         /\ state'.turn = 1 /\ state'.history = << >>
         /\ state'.status = "PENDING"
         /\ bot'.state = None
         /\ bot'.transitions = bot.transitions
         /\ restart_game(state', bot') = [state |-> state', bot |-> bot']]_vars

C10_Witness ==
    /\ call.op = "restart_game"
    /\ state = GameState /\ bot.state = None
    /\ \A rows \in InitTransitions : bot.transitions # Matrix(rows)

\* A step that is a call made directly on the bot
BotStep(op) == call'.op = op /\ calls' = calls + 1
RowSum(row) == row[0] + row[1] + row[2]
LastRecord == state.history[Len(state.history)]

\* C11: the first update_transitions(m) with the current state unset only
\* anchors: the state becomes index(m) and the nine cells stay as they were;
\* so the first round of every game, the first and the restarted ones, leaves
\* the matrix unchanged.
C11_FirstUpdateOnlyAnchors ==
    [][(RoundStep /\ (bot.state = None \/ state.history = <<>>))
         => /\ bot'.state = index(call'.arg)
            /\ bot'.transitions = bot.transitions]_vars

\* The first round of a restarted game was played on a matrix the game
\* before had changed
C11_Witness ==
    /\ games = 2
    /\ call.op = "move"
    /\ raised = "none"
    /\ Len(state.history) = 1
    /\ bot.state = index(LastRecord[1])
    /\ \A rows \in InitTransitions : bot.transitions # Matrix(rows)

\* C12: with the current state set to s, predict() answers the guess g, the
\* lowest index among the largest cells of row s, with the move that beats
\* it: Paper for Rock, Scissors for Paper, Rock for Scissors.
C12_PredictCountersLikeliest ==
    [][(RoundStep /\ bot.state # None)
         => LET row == bot.transitions[bot.state]
                bot_move == state'.history[Len(state'.history)][2]
            IN \A g \in Idx :
                 (/\ \A j \in Idx : row[j] <= row[g]
                  /\ \A j \in Idx : j < g => row[j] < row[g])
                 => bot_move = CASE g = 0 -> PAPER
                                 [] g = 1 -> SCISSORS
                                 [] g = 2 -> ROCK]_vars

\* A round was answered from a row, and the row the next answer comes from
\* holds its largest value twice
C12_Witness ==
    /\ call.op = "move"
    /\ raised = "none"
    /\ Len(state.history) >= 2
    /\ bot.state # None
    /\ \E i, j \in Idx :
         /\ i < j
         /\ bot.transitions[bot.state][i] = bot.transitions[bot.state][j]
         /\ \A k \in Idx :
              bot.transitions[bot.state][k] <= bot.transitions[bot.state][i]

\* C13, as the spec states it: after every update that modifies the matrix,
\* each of the nine cells lies in [0.001, 0.999].
C13_AllCellsClamped ==
    [][(BotStep("update_transitions") /\ bot'.transitions # bot.transitions)
         => \A i, j \in Idx :
              bot'.transitions[i][j] \in Floor..Cap]_vars

\* C13, as the code has it: after every update that modifies the matrix,
\* each cell of the row it updated, the row of the state current before the
\* update, lies in [0.001, 0.999].
C13_UpdatedRowClamped ==
    [][(BotStep("update_transitions") /\ bot'.transitions # bot.transitions)
         => /\ bot.state # None
            /\ \A j \in Idx :
                 bot'.transitions[bot.state][j] \in Floor..Cap
            /\ \A i \in Idx \ {bot.state} :
                 bot'.transitions[i] = bot.transitions[i]]_vars

\* An update has changed one row of a constructed matrix, both clamps acted
\* on that row, and a row no update touched holds a cell outside the interval
C13_Witness ==
    /\ call.op = "update_transitions"
    /\ raised = "none"
    /\ \E rows \in InitBotTransitions : \E s \in Idx :
         /\ bot.transitions[s] # Matrix(rows)[s]
         /\ \A i \in Idx \ {s} : bot.transitions[i] = Matrix(rows)[i]
         /\ \E j \in Idx : bot.transitions[s][j] = Floor
         /\ \E j \in Idx : bot.transitions[s][j] = Cap
         /\ \E i \in Idx \ {s} : \E j \in Idx :
              bot.transitions[i][j] \notin Floor..Cap

\* C14: an update s -> s' that triggers no clamp (no cell of row s falls
\* under 0.001 when the learning rate is taken off, and cell (s, s') does
\* not pass 0.999 when three learning rates are added) leaves the sum of
\* row s as it was.
C14_RowSumKept ==
    [][(/\ BotStep("update_transitions")
        /\ raised' = "none"
        /\ bot.state # None
        /\ \A j \in Idx : bot.transitions[bot.state][j] - lr >= Floor
        /\ bot.transitions[bot.state][bot'.state] - lr + 3 * lr <= Cap)
         => RowSum(bot'.transitions[bot.state])
              = RowSum(bot.transitions[bot.state])]_vars

\* An update has changed one row of a constructed matrix without reaching
\* either clamp
C14_Witness ==
    /\ call.op = "update_transitions"
    /\ raised = "none"
    /\ \E rows \in InitBotTransitions : \E s \in Idx :
         /\ bot.transitions[s] # Matrix(rows)[s]
         /\ \A i \in Idx \ {s} : bot.transitions[i] = Matrix(rows)[i]
         /\ \A j \in Idx : /\ bot.transitions[s][j] > Floor
                           /\ bot.transitions[s][j] < Cap
                           /\ Matrix(rows)[s][j] - lr >= Floor

\* The file at the path parses into exactly 3 rows of 3 finite floats
ThreeByThreeFinite(filepath) ==
    /\ filepath \in DOMAIN Files
    /\ Len(Files[filepath]) = 3
    /\ \A r \in 1..3 :
         /\ Len(Files[filepath][r]) = 3
         /\ \A c \in 1..3 :
              /\ Files[filepath][r][c] \in DOMAIN float
              /\ float[Files[filepath][r][c]] \notin {NaN, Inf}

\* C15: load_weights on a source that does not parse into exactly 3 rows of
\* 3 finite floats raises, and a load_weights that raises leaves the matrix
\* in memory as it was.
C15_MalformedWeightsRejected ==
    [][BotStep("load_weights")
         => /\ ~ThreeByThreeFinite(call'.arg) => raised' # "none"
            /\ raised' # "none" => bot'.transitions = bot.transitions]_vars

PositiveStochastic(t) ==
    /\ IsMatrix(t)
    /\ \A i, j \in Idx : t[i][j] > 0
    /\ \A i \in Idx : RowSum(t[i]) = One

\* C16: predict() does not raise on a matrix whose rows are strictly
\* positive and sum to 1, whether the current state is set or unset (the
\* stable distribution is then computed).
C16_PredictDoesNotRaise ==
    PositiveStochastic(bot.transitions)
        => /\ "IndexError" \notin predict(bot)
           /\ "IndexError" \notin predict(reset_state(bot))
           /\ call.op = "predict" => raised = "none"

\* predict() returned from the stable distribution of a positive matrix with
\* unit row sums that an update had changed
C16_Witness ==
    /\ call.op = "predict"
    /\ raised = "none"
    /\ bot.state = None
    /\ PositiveStochastic(bot.transitions)
    /\ \A rows \in InitBotTransitions : bot.transitions # Matrix(rows)
    /\ \E rows \in InitBotTransitions : \E i \in Idx :
         bot.transitions[i] = Matrix(rows)[i]

\* C17: once a round has been completed, the current state of the bot is the
\* index (R = 0, P = 1, S = 2) of the player's move in the last record of
\* the history; the bot's own move is not what it observes.
C17_StateIsLastPlayerMove ==
    state.history # <<>>
        => /\ LastRecord[1] \in ValidMoves
           /\ bot.state = CASE LastRecord[1] = ROCK -> 0
                            [] LastRecord[1] = PAPER -> 1
                            [] LastRecord[1] = SCISSORS -> 2

\* A round was completed in which the bot played another move than the
\* player, after a round in which the player played another move again
C17_Witness ==
    /\ call.op = "move"
    /\ raised = "none"
    /\ Len(state.history) >= 2
    /\ LastRecord[1] # LastRecord[2]
    /\ LastRecord[1] # state.history[Len(state.history) - 1][1]

\* C18: a game is out of PENDING no later than the round that brings turn to
\* 30: no state has turn at 30 or beyond and status PENDING.
C18_PendingEndsByTurnCap ==
    state.turn >= TurnCap => state.status # "PENDING"

\* C19: a round played while status is PENDING leaves status PENDING exactly
\* when turn < 30 and both scores are in 0..9, and leaves both scores in
\* 0..10.
C19_PendingIffNotFinished ==
    [][(RoundStep /\ state.status = "PENDING")
         => /\ state'.status = "PENDING"
                <=> /\ state'.turn < TurnCap
                    /\ state'.player_score \in 0..(ScoreCap - 1)
                    /\ state'.bot_score \in 0..(ScoreCap - 1)
            /\ state'.player_score \in 0..ScoreCap
            /\ state'.bot_score \in 0..ScoreCap]_vars

\* C20: the history is one shorter than turn says; a call of move() that
\* returns adds one to turn, and a call of move() either leaves turn and the
\* history alone or adds one to turn and puts one record (player_move,
\* bot_move, result) behind the records there were.
C20_HistoryAppendOnly ==
    [][/\ Len(state'.history) = state'.turn - 1
       /\ MoveStep
            => /\ raised' = "none" => state'.turn = state.turn + 1
               /\ \/ /\ state'.turn = state.turn
                     /\ state'.history = state.history
                  \/ /\ state'.turn = state.turn + 1
                     /\ \E bot_move \in ValidMoves :
                          state'.history =
                            state.history \o
                              <<<<call'.arg, bot_move,
                                  get_move_result(call'.arg, bot_move)>>>>]_vars

\* A round was completed in the game after a restart: turn is 2 and the
\* record of the round is the only one
C20_Witness ==
    /\ games = 2
    /\ call.op = "move"
    /\ raised = "none"
    /\ state.turn = 2
    /\ Len(state.history) = 1

\* C21, as the spec states it: an update s -> s' with the state set leaves
\* the two other rows as they were, and no cell of row s other than (s, s')
\* is larger after it than before.
C21_OnlyRowChangesNoIncrease ==
    [][(/\ BotStep("update_transitions")
        /\ raised' = "none"
        /\ bot.state # None)
         => /\ \A i \in Idx \ {bot.state} :
                 bot'.transitions[i] = bot.transitions[i]
            /\ \A j \in Idx \ {bot'.state} :
                 bot'.transitions[bot.state][j]
                   <= bot.transitions[bot.state][j]]_vars

\* C21, as the code has it: an update s -> s' with the state set leaves the
\* two other rows as they were; a cell of row s other than (s, s') that held
\* 0.001 or more is not larger after it, and one that held less holds 0.001.
C21_OnlyRowChangesFloorRaises ==
    [][(/\ BotStep("update_transitions")
        /\ raised' = "none"
        /\ bot.state # None)
         => /\ \A i \in Idx \ {bot.state} :
                 bot'.transitions[i] = bot.transitions[i]
            /\ \A j \in Idx \ {bot'.state} :
                 IF bot.transitions[bot.state][j] >= Floor
                 THEN bot'.transitions[bot.state][j]
                        <= bot.transitions[bot.state][j]
                 ELSE bot'.transitions[bot.state][j] = Floor]_vars

\* An update has changed one row of a constructed matrix, and a cell of the
\* row that held less than 0.001 and is not the observed one holds 0.001
C21_Witness ==
    /\ call.op = "update_transitions"
    /\ raised = "none"
    /\ \E rows \in InitBotTransitions : \E s \in Idx :
         /\ bot.transitions[s] # Matrix(rows)[s]
         /\ \A i \in Idx \ {s} : bot.transitions[i] = Matrix(rows)[i]
         /\ \E j \in Idx \ {bot.state} :
              /\ Matrix(rows)[s][j] < Floor
              /\ bot.transitions[s][j] = Floor

\* C22: a bot anchored at m that is given update_transitions(m) again and
\* again comes, after finitely many updates, to answer every predict() with
\* the move that beats m, and from then on the player who repeats m loses
\* every round.
C22_RepeatedMoveLearned ==
    <>[](/\ call.op = "calculate_bot_move"
         /\ raised = "none"
         /\ bot.state = index(call.arg)
         /\ predict(bot) = {states[((bot.state + 1) % 3) + 1]}
         /\ get_move_result(call.arg, call.ret) = "LOSS")

\* The bot answered the repeated move with the move that beats it, from a
\* row that is saturated now and whose largest cell at construction was
\* another one
C22_Witness ==
    /\ call.op = "calculate_bot_move"
    /\ raised = "none"
    /\ get_move_result(call.arg, call.ret) = "LOSS"
    /\ \E rows \in InitBotTransitions :
         /\ \A i \in Idx \ {bot.state} : bot.transitions[i] = Matrix(rows)[i]
         /\ argmax(Matrix(rows)[bot.state]) # bot.state
         /\ bot.transitions[bot.state][bot.state] = Cap
         /\ \A j \in Idx \ {bot.state} : bot.transitions[bot.state][j] = Floor
====
